---- MODULE Spec2Model ----
(***************************************************************************)
(* Model of backend/server.js: the HTTP bootstrap script of the tutorial   *)
(* CRUD backend.  The script runs top to bottom (run to completion); the   *)
(* callbacks it registers (listen callback, connect().then / .catch) run   *)
(* from the event loop after the script has finished; requests are served  *)
(* by the layers the script pushed on the application's router stack.      *)
(***************************************************************************)
EXTENDS Naturals, Sequences, FiniteSets, TLC

VARIABLES
  pc,              \* index in Program of the next top-level statement
  envPORT,         \* process.env.PORT: <<>> when unset, <<s>> when set to s
  dbReachable,     \* environment: whether db.url can be connected to
  stack,           \* the app's router stack: layers in registration order
  PORT,            \* const PORT: <<>> before line 34, <<text>> afterwards
  listenCalled,    \* app.listen(...) has been called
  listening,       \* the socket is bound and accepting
  boundPort,       \* the port the socket is bound to (<<>> while unbound)
  boundHost,       \* the interface the socket is bound to (<<>> while unbound)
  dbState,         \* "none", "pending", "connected", "failed"
  connectAttempts, \* number of calls of db.mongoose.connect
  log,             \* lines written by console.log
  exitCode,        \* <<>> while the process runs, <<c>> once it has exited
  served,          \* number of requests answered so far
  lastReq,         \* the last request received
  lastResp         \* the response given to lastReq

vars == <<pc, envPORT, dbReachable, stack, PORT, listenCalled, listening,
          boundPort, boundHost, dbState, connectAttempts, log, exitCode,
          served, lastReq, lastResp>>

\* Bound of the model: how many requests the environment sends.
MaxRequests == 2

-----------------------------------------------------------------------------
\* Faulty variant: the connection attempt is started before anything is registered.
ProgramConnectFirst ==
  <<"express", "connect", "useCors", "useJson", "useUrlencoded",
    "requireModels", "getRoot", "requireRoutes", "port", "listen">>

\* Faulty variant: the routes are registered before the body parsers.
ProgramRoutesFirst ==
  <<"express", "useCors", "getRoot", "requireRoutes", "useJson",
    "useUrlencoded", "requireModels", "connect", "port", "listen">>

\* The top-level statements of server.js, in source order.
Program ==
  <<"express", "useCors", "useJson", "useUrlencoded", "requireModels",
    "connect", "getRoot", "requireRoutes", "port", "listen">>

Done == Len(Program) + 1

At(stmt) == pc \in 1..Len(Program) /\ Program[pc] = stmt

exited == exitCode # <<>>

\* The script is still running, or the event loop is: nothing runs after exit.
Running == ~exited

-----------------------------------------------------------------------------
\* Requests and responses.

Methods  == {"GET", "POST", "OPTIONS"}
Paths    == {"/", "/api/tutorials", "/missing"}
Origins  == {"none", "http://a.example", "http://b.example"}
CTypes   == {"none", "application/json", "application/x-www-form-urlencoded"}
Bodies   == {"none", "valid", "malformed"}

Requests ==
  { r \in [method : Methods, path : Paths, origin : Origins,
           ctype : CTypes, body : Bodies] :
      (r.body = "none") <=> (r.ctype = "none") }

NoReq == [method |-> "none", path |-> "none", origin |-> "none",
          ctype |-> "none", body |-> "none"]

WelcomeBody == "{\"message\":\"Welcome to Test application.\"}"

\* A response under construction: status, body, the Access-Control-Allow-Origin
\* header ("" when absent), the parsed req.body kind, the route handler that ran,
\* and the database state the handler saw.
NewResp == [status |-> 0, body |-> "", acao |-> "", parsed |-> "none",
            handler |-> "none", db |-> "none"]

\* Faulty variant: cors configured with an origin allow-list.
CorsLayerAllowList(req, res) ==
  LET r1 == IF req.origin = "http://a.example"
            THEN [res EXCEPT !.acao = req.origin] ELSE res
  IN IF req.method = "OPTIONS"
     THEN [res |-> [r1 EXCEPT !.status = 204], go |-> "end"]
     ELSE [res |-> r1, go |-> "next"]

\* cors() with no options: origin "*", preflightContinue false, 204 on OPTIONS.
CorsLayer(req, res) ==
  LET r1 == [res EXCEPT !.acao = "*"]
  IN IF req.method = "OPTIONS"
     THEN [res |-> [r1 EXCEPT !.status = 204], go |-> "end"]
     ELSE [res |-> r1, go |-> "next"]

\* express.json(): parses a body declared application/json; a syntax error is
\* passed on as a 400 error.
JsonLayer(req, res) ==
  IF req.ctype = "application/json" /\ req.body # "none"
  THEN IF req.body = "malformed"
       THEN [res |-> [res EXCEPT !.status = 400], go |-> "error"]
       ELSE [res |-> [res EXCEPT !.parsed = "json"], go |-> "next"]
  ELSE [res |-> res, go |-> "next"]

\* express.urlencoded({ extended: true }): parses a body declared urlencoded
\* (qs accepts any text) unless a body was parsed already.
UrlencodedLayer(req, res) ==
  IF req.ctype = "application/x-www-form-urlencoded" /\ req.body # "none"
     /\ res.parsed = "none"
  THEN [res |-> [res EXCEPT !.parsed = "urlencoded"], go |-> "next"]
  ELSE [res |-> res, go |-> "next"]

\* Faulty variant: the health route answers 503 unless the database is connected.
RootRouteChecksDb(req, res, db) ==
  IF req.method = "GET" /\ req.path = "/"
  THEN [res |-> [res EXCEPT !.status = IF db = "connected" THEN 200 ELSE 503,
                            !.body = WelcomeBody,
                            !.handler = "root", !.db = db],
        go |-> "end"]
  ELSE [res |-> res, go |-> "next"]

\* app.get("/", ...): res.json({ message: "Welcome to Test application." }).
RootRoute(req, res, db) ==
  IF req.method = "GET" /\ req.path = "/"
  THEN [res |-> [res EXCEPT !.status = 200, !.body = WelcomeBody,
                            !.handler = "root"],
        go |-> "end"]
  ELSE [res |-> res, go |-> "next"]

\* The route module's handlers under /api/tutorials: they need data access,
\* which succeeds only once the connection is established.
TutorialRoutes(req, res, db) ==
  IF req.method \in {"GET", "POST"} /\ req.path = "/api/tutorials"
  THEN [res |-> [res EXCEPT !.status = IF db = "connected" THEN 200 ELSE 500,
                            !.handler = "tutorials", !.db = db],
        go |-> "end"]
  ELSE [res |-> res, go |-> "next"]

Layer(name, req, res, db) ==
  CASE name = "cors"       -> CorsLayer(req, res)
    [] name = "json"       -> JsonLayer(req, res)
    [] name = "urlencoded" -> UrlencodedLayer(req, res)
    [] name = "root"       -> RootRoute(req, res, db)
    [] name = "tutorials"  -> TutorialRoutes(req, res, db)

\* The router walks the stack from layer i on; falling off the end is the
\* default 404, an error skips the remaining layers and is answered by the
\* default error handler with the error's status on the same response.
RECURSIVE Dispatch(_, _, _, _, _)
Dispatch(st, i, req, res, db) ==
  IF i > Len(st)
  THEN [res EXCEPT !.status = 404]
  ELSE LET out == Layer(st[i], req, res, db)
       IN IF out.go = "next"
          THEN Dispatch(st, i + 1, req, out.res, db)
          ELSE out.res

-----------------------------------------------------------------------------
\* The environment the process is started in.

EnvPorts == {<<>>, <<"">>, <<"9090">>, <<"3000">>}

DefaultPort == 8080

Falsy(v) == v = <<>> \/ v = <<"">>

\* Faulty variant: the environment variable is ignored.
ResolvePortIgnoreEnv(env) == ToString(DefaultPort)

\* process.env.PORT || 8080, as the text the template literal prints.
ResolvePort(env) == IF Falsy(env) THEN ToString(DefaultPort) ELSE env[1]

\* The numeric port listen() binds for a port given as text.
PortNumber(text) ==
  CASE text = "8080" -> 8080
    [] text = "9090" -> 9090
    [] text = "3000" -> 3000

ListenHost == "0.0.0.0"

\* process.exit() without an argument: the exit code is process.exitCode,
\* which is never set, so the runtime default.
ProcessExit(code) == IF code = <<>> THEN 0 ELSE code[1]

Init ==
  /\ pc = 1
  /\ envPORT \in EnvPorts
  /\ dbReachable \in BOOLEAN
  /\ stack = <<>>
  /\ PORT = <<>>
  /\ listenCalled = FALSE
  /\ listening = FALSE
  /\ boundPort = <<>>
  /\ boundHost = <<>>
  /\ dbState = "none"
  /\ connectAttempts = 0
  /\ log = <<>>
  /\ exitCode = <<>>
  /\ served = 0
  /\ lastReq = NoReq
  /\ lastResp = NewResp

-----------------------------------------------------------------------------
\* The top-level statements.

\* line 4: const app = express();
Express ==
  /\ Running /\ At("express")
  /\ stack' = <<>>
  /\ pc' = pc + 1
  /\ UNCHANGED <<envPORT, dbReachable, PORT, listenCalled, listening,
                 boundPort, boundHost, dbState, connectAttempts, log,
                 exitCode, served, lastReq, lastResp>>

Use(stmt, layer) ==
  /\ Running /\ At(stmt)
  /\ stack' = Append(stack, layer)
  /\ pc' = pc + 1
  /\ UNCHANGED <<envPORT, dbReachable, PORT, listenCalled, listening,
                 boundPort, boundHost, dbState, connectAttempts, log,
                 exitCode, served, lastReq, lastResp>>

\* line 6: app.use(cors());
UseCors == Use("useCors", "cors")

\* line 9: app.use(express.json());
UseJson == Use("useJson", "json")

\* line 10: app.use(express.urlencoded({ extended: true }));
UseUrlencoded == Use("useUrlencoded", "urlencoded")

\* line 12: const db = require("./app/models");
RequireModels ==
  /\ Running /\ At("requireModels")
  /\ pc' = pc + 1
  /\ UNCHANGED <<envPORT, dbReachable, stack, PORT, listenCalled, listening,
                 boundPort, boundHost, dbState, connectAttempts, log,
                 exitCode, served, lastReq, lastResp>>

\* lines 14-25: db.mongoose.connect(db.url, ...).then(...).catch(...): starts
\* the attempt and registers both callbacks; the promise is pending.
Connect ==
  /\ Running /\ At("connect")
  /\ dbState' = "pending"
  /\ connectAttempts' = connectAttempts + 1
  /\ pc' = pc + 1
  /\ UNCHANGED <<envPORT, dbReachable, stack, PORT, listenCalled, listening,
                 boundPort, boundHost, log, exitCode, served, lastReq,
                 lastResp>>

\* lines 28-30: app.get("/", ...);
GetRoot == Use("getRoot", "root")

\* line 32: require("./app/routes/turorial.routes")(app);
RequireRoutes == Use("requireRoutes", "tutorials")

\* line 34: const PORT = process.env.PORT || 8080;
SetPort ==
  /\ Running /\ At("port")
  /\ PORT' = <<ResolvePort(envPORT)>>
  /\ pc' = pc + 1
  /\ UNCHANGED <<envPORT, dbReachable, stack, listenCalled, listening,
                 boundPort, boundHost, dbState, connectAttempts, log,
                 exitCode, served, lastReq, lastResp>>

\* line 36: app.listen(PORT, "0.0.0.0", callback): the bind is requested.
Listen ==
  /\ Running /\ At("listen")
  /\ listenCalled' = TRUE
  /\ pc' = pc + 1
  /\ UNCHANGED <<envPORT, dbReachable, stack, PORT, listening, boundPort,
                 boundHost, dbState, connectAttempts, log, exitCode, served,
                 lastReq, lastResp>>

-----------------------------------------------------------------------------
\* Callbacks run by the event loop once the script has run to completion.

\* Faulty variant: the bind waits for the database connection.
ListenCallbackGated ==
  /\ Running /\ pc = Done
  /\ dbState = "connected"
  /\ listenCalled /\ ~listening
  /\ listening' = TRUE
  /\ boundPort' = <<PortNumber(PORT[1])>>
  /\ boundHost' = <<ListenHost>>
  /\ log' = Append(log, "Server is running on port " \o PORT[1] \o ".")
  /\ UNCHANGED <<pc, envPORT, dbReachable, stack, PORT, listenCalled,
                 dbState, connectAttempts, exitCode, served, lastReq,
                 lastResp>>

\* lines 36-38: the socket is bound and the listen callback logs.
ListenCallback ==
  /\ Running /\ pc = Done
  /\ listenCalled /\ ~listening
  /\ listening' = TRUE
  /\ boundPort' = <<PortNumber(PORT[1])>>
  /\ boundHost' = <<ListenHost>>
  /\ log' = Append(log, "Server is running on port " \o PORT[1] \o ".")
  /\ UNCHANGED <<pc, envPORT, dbReachable, stack, PORT, listenCalled,
                 dbState, connectAttempts, exitCode, served, lastReq,
                 lastResp>>

\* Faulty variant: the failure is logged and the attempt repeated, without exit.
ConnectRejectedRetry ==
  /\ Running /\ pc = Done
  /\ dbState = "pending" /\ ~dbReachable
  /\ connectAttempts < 3
  /\ connectAttempts' = connectAttempts + 1
  /\ log' = Append(log, "Cannot connect to the database!")
  /\ UNCHANGED <<pc, envPORT, dbReachable, stack, PORT, listenCalled,
                 listening, boundPort, boundHost, dbState, exitCode, served,
                 lastReq, lastResp>>

\* Faulty variant: the failure is logged but the process keeps running.
ConnectRejectedNoExit ==
  /\ Running /\ pc = Done
  /\ dbState = "pending" /\ ~dbReachable
  /\ dbState' = "failed"
  /\ log' = Append(log, "Cannot connect to the database!")
  /\ UNCHANGED <<pc, envPORT, dbReachable, stack, PORT, listenCalled,
                 listening, boundPort, boundHost, connectAttempts, exitCode,
                 served, lastReq, lastResp>>

\* lines 22-25: .catch(err => { console.log(...); process.exit(); })
ConnectRejected ==
  /\ Running /\ pc = Done
  /\ dbState = "pending" /\ ~dbReachable
  /\ dbState' = "failed"
  /\ log' = Append(log, "Cannot connect to the database!")
  /\ exitCode' = <<ProcessExit(<<>>)>>
  /\ UNCHANGED <<pc, envPORT, dbReachable, stack, PORT, listenCalled,
                 listening, boundPort, boundHost, connectAttempts, served,
                 lastReq, lastResp>>

\* Faulty variant: the success callback exits the process.
ConnectResolvedExits ==
  /\ Running /\ pc = Done
  /\ dbState = "pending" /\ dbReachable
  /\ dbState' = "connected"
  /\ log' = Append(log, "Connected to the database!")
  /\ exitCode' = <<ProcessExit(<<>>)>>
  /\ UNCHANGED <<pc, envPORT, dbReachable, stack, PORT, listenCalled,
                 listening, boundPort, boundHost, connectAttempts, served,
                 lastReq, lastResp>>

\* lines 19-21: .then(() => { console.log("Connected to the database!"); })
ConnectResolved ==
  /\ Running /\ pc = Done
  /\ dbState = "pending" /\ dbReachable
  /\ dbState' = "connected"
  /\ log' = Append(log, "Connected to the database!")
  /\ UNCHANGED <<pc, envPORT, dbReachable, stack, PORT, listenCalled,
                 listening, boundPort, boundHost, connectAttempts, exitCode,
                 served, lastReq, lastResp>>

\* A request arriving on the listening socket is answered by the stack.
HandleRequest ==
  /\ Running /\ listening
  /\ served < MaxRequests
  /\ \E req \in Requests :
       /\ lastReq' = req
       /\ lastResp' = Dispatch(stack, 1, req, NewResp, dbState)
  /\ served' = served + 1
  /\ UNCHANGED <<pc, envPORT, dbReachable, stack, PORT, listenCalled,
                 listening, boundPort, boundHost, dbState, connectAttempts,
                 log, exitCode>>

MainScript ==
  \/ Express \/ UseCors \/ UseJson \/ UseUrlencoded \/ RequireModels
  \/ Connect \/ GetRoot \/ RequireRoutes \/ SetPort \/ Listen

Next ==
  \/ MainScript
  \/ ListenCallback
  \/ ConnectResolved
  \/ ConnectRejected
  \/ HandleRequest

Spec == Init /\ [][Next]_vars

\* The event loop runs the script and every ready callback, and the driver
\* settles the connection attempt (it resolves or times out).
FairSpec ==
  /\ Spec
  /\ WF_vars(MainScript)
  /\ WF_vars(ListenCallback)
  /\ WF_vars(ConnectResolved)
  /\ WF_vars(ConnectRejected)

-----------------------------------------------------------------------------
\* Vocabulary of the properties.

Middleware == <<"cors", "json", "urlencoded">>

FullStack == Middleware \o <<"root", "tutorials">>

Registered(layer) == \E i \in 1..Len(stack) : stack[i] = layer

Answered == served > 0

GetRootReq == Answered /\ lastReq.method = "GET" /\ lastReq.path = "/"

MalformedJson(req) == req.ctype = "application/json" /\ req.body = "malformed"

\* The endpoints the script mounts: GET / and the route module's handlers.
MountedEndpoint(req) ==
  \/ req.method = "GET" /\ req.path = "/"
  \/ req.method \in {"GET", "POST"} /\ req.path = "/api/tutorials"

FailureLine == "Cannot connect to the database!"

-----------------------------------------------------------------------------
C2_ExitsNonZero ==
  dbState = "failed" =>
     /\ exited
     /\ exitCode[1] # 0
     /\ Len(log) > 0 /\ log[Len(log)] = FailureLine

\* C3 (as stated): with the database unreachable the socket never listens and
\* no request is ever served.
C3_Original == ~dbReachable => (~listening /\ served = 0)

\* C3 (amended): with the database unreachable the process eventually exits,
\* and once it has exited no request is served and the socket state no longer
\* changes; before the exit the socket may listen and requests may be served.
C3_ExitsThenServesNothing ==
  /\ (~dbReachable) ~> exited
  /\ [][exited => (served' = served /\ lastResp' = lastResp
                   /\ listening' = listening)]_vars

C3_Witness ==
  /\ ~dbReachable /\ exited /\ listening /\ served > 0
  /\ lastReq.method = "GET" /\ lastReq.path = "/" /\ lastResp.status = 200

\* C4: a request with a malformed JSON body to a mounted endpoint is answered
\* 4xx by the JSON parser and no route handler runs; the middleware is
\* registered in the order cors, json, urlencoded before any route.
C4_MalformedJsonRejected ==
  /\ (Answered /\ MountedEndpoint(lastReq) /\ MalformedJson(lastReq)) =>
        /\ lastResp.status \in 400..499
        /\ lastResp.handler = "none"
        /\ lastResp.parsed = "none"
  /\ \A i \in 1..Len(stack) :
        stack[i] \in {"root", "tutorials"} =>
           (i > Len(Middleware) /\ SubSeq(stack, 1, Len(Middleware)) = Middleware)

C4_Witness ==
  /\ Answered /\ lastReq.method = "POST" /\ lastReq.path = "/api/tutorials"
  /\ MalformedJson(lastReq) /\ lastResp.status = 400

\* C5 (as stated): the bound port is the value of PORT when PORT is set and
\* 8080 when it is unset; the bind is on 0.0.0.0.
C5_Original ==
  listening =>
     /\ boundHost = <<"0.0.0.0">>
     /\ IF envPORT = <<>> THEN boundPort = <<8080>>
                         ELSE ToString(boundPort[1]) = envPORT[1]

\* C5 (amended): the bound port is the value of PORT when PORT is set to a
\* non-empty port number, and 8080 when PORT is unset or empty; the bind is on
\* 0.0.0.0.
C5_PortFromEnv ==
  listening =>
     /\ boundHost = <<"0.0.0.0">>
     /\ IF envPORT = <<>> \/ envPORT = <<"">>
        THEN boundPort = <<8080>>
        ELSE ToString(boundPort[1]) = envPORT[1]

C5_Witness == listening /\ envPORT = <<"9090">> /\ boundPort = <<9090>>

\* C6: every answered cross-origin GET / carries an Access-Control-Allow-Origin
\* header permitting the requesting origin, and cors is the first layer.
C6_CorsUniversal ==
  /\ (GetRootReq /\ lastReq.origin # "none") =>
        lastResp.acao \in {"*", lastReq.origin}
  /\ Len(stack) > 0 => stack[1] = "cors"

C6_Witness ==
  /\ GetRootReq /\ lastReq.origin = "http://b.example"
  /\ lastResp.acao = "*" /\ lastResp.status = 200

\* C7: listening is not gated on the connection: once the script has finished,
\* the bind can happen whatever the connection state, and a data request
\* handled before the connection is established fails.
C7_ListenNotGated ==
  /\ (Running /\ pc = Done /\ ~listening) => ENABLED ListenCallback
  /\ (Answered /\ lastResp.handler = "tutorials" /\ lastResp.db # "connected")
        => lastResp.status = 500

C7_Witness ==
  /\ listening /\ dbState = "pending" /\ Answered
  /\ lastResp.handler = "tutorials" /\ lastResp.db = "pending"
  /\ lastResp.status = 500

\* C8: the process exits only by a step from a pending connection attempt to a
\* failed one; it never exits while the script runs or after the connection
\* succeeded.
C8_FatalExitOnlyFromConnecting ==
  [][(exited' /\ ~exited) =>
        /\ dbState = "pending" /\ dbState' = "failed"
        /\ ~dbReachable /\ pc = Done]_vars

C8_Witness == exited /\ dbState = "failed" /\ connectAttempts = 1

\* C9: the connection is attempted at most once (exactly once from line 14 on);
\* after a failure the failure message is the last line logged, the process has
\* exited and nothing changes any more.
C9_FailureIsTerminal ==
  /\ [](connectAttempts = IF dbState = "none" THEN 0 ELSE 1)
  /\ [](dbState = "failed" =>
           /\ exited
           /\ log[Len(log)] = FailureLine
           /\ \A i \in 1..Len(log) : log[i] # "Connected to the database!")
  /\ [][dbState = "failed" => vars' = vars]_vars

C9_Witness ==
  /\ dbState = "failed" /\ exited
  /\ log = <<"Server is running on port 8080.", FailureLine>>

\* C10 (as stated): the connection attempt starts only after the middleware
\* and all routes have been registered.
C10_Original == dbState # "none" => stack = FullStack

\* C10 (amended): the connection attempt starts only after the three middleware
\* layers have been registered; both routes are registered after it has
\* started, and its outcome is handled only after they are registered and
\* listen has been called.
C10_ConnectAfterMiddleware ==
  /\ dbState # "none" =>
        (Len(stack) >= Len(Middleware)
         /\ SubSeq(stack, 1, Len(Middleware)) = Middleware)
  /\ (Registered("root") \/ Registered("tutorials")) => dbState # "none"
  /\ dbState \in {"connected", "failed"} => (stack = FullStack /\ listenCalled)

C10_Witness == dbState = "pending" /\ stack = Middleware /\ At("getRoot")

====
